---------------------------- MODULE Spec2Model ----------------------------
(***************************************************************************)
(* Model of the kanjipedia entry parser (src/kanjipedia/entry.py) and of   *)
(* the record store built on it (src/kanjipedia/kanji_db.py).              *)
(*                                                                         *)
(* Python strings are sequences of characters; a character is a TLA+       *)
(* string used as an atom.  The Japanese characters the code tests for are *)
(* written in ASCII:                                                       *)
(*   "shi" "ji"   (SHIJI marker)     "shou" "kei" (SHOUKEI marker)         *)
(*   "kai" "i"    (KAII marker)      "kei" "sei"  (KEISEI marker)          *)
(*   "ten" "chuu" (TENCHUU marker)   "ka" "sha"   (KASHA marker)           *)
(*   "i" "fu"     (semantic-component marker, ifu)                         *)
(*   "on" "fu"    (phonetic-component marker, onpu)                        *)
(*   "to"         (connective particle)   "sep" (reading separator, U+30FB)*)
(*   "gai"        (the extended-region glyph)                              *)
(*   "FL" "FR"    (full-width parentheses) "(" ")" (ASCII parentheses)     *)
(*   "sp" "nl"    (whitespace)       "." (the stem/suffix boundary)        *)
(* A markup tag name or attribute value is abstracted to one character.    *)
(***************************************************************************)
EXTENDS Integers, Sequences, FiniteSets, TLC

VARIABLES
    doc,      \* the input last handed to the parser
    entry,    \* the Entry last assembled
    err,      \* the exception the last operation raised, "none" if none
    pc,       \* the operation last completed
    db,       \* the kanji table of the store, in insertion order
    loaded,   \* the Entry last rehydrated from the store
    kundb,    \* the kunyomi table of the store, in insertion order
    result,   \* the Entries the last lookup returned
    batch     \* the ingestion run: its lines, those still to process, and
              \* the lines started so far with how each ended

vars == <<doc, entry, err, pc, db, loaded, kundb, result, batch>>

\* no reading map, no lookup result, no ingestion run
NoBatch == [input |-> <<>>, todo |-> <<>>, log |-> <<>>]
Untouched == kundb = <<>> /\ result = <<>> /\ batch = NoBatch

----------------------------------------------------------------------------
(* Python str primitives *)

\* Python None for an optional string field
NoneVal == <<"None">>

IsWS(c) == c \in {"sp", "nl"}

RECURSIVE LStrip(_)
LStrip(s) == IF s = <<>> THEN s
             ELSE IF IsWS(Head(s)) THEN LStrip(Tail(s)) ELSE s

RECURSIVE RStrip(_)
RStrip(s) == IF s = <<>> THEN s
             ELSE IF IsWS(s[Len(s)]) THEN RStrip(SubSeq(s, 1, Len(s) - 1))
             ELSE s

\* str.strip()
Strip(s) == RStrip(LStrip(s))

MatchAt(s, sub, i) == /\ i + Len(sub) - 1 <= Len(s)
                      /\ SubSeq(s, i, i + Len(sub) - 1) = sub

RECURSIVE FindFrom(_, _, _)
FindFrom(s, sub, i) ==
    IF i + Len(sub) - 1 > Len(s) THEN -1
    ELSE IF MatchAt(s, sub, i) THEN i - 1
    ELSE FindFrom(s, sub, i + 1)

\* str.find(sub): 0-based index of the first occurrence, -1 when absent
Find(s, sub) == FindFrom(s, sub, 1)

\* sub in s
Contains(s, sub) == Find(s, sub) # -1

\* str.split(sep) with an explicit separator: empty pieces are kept
RECURSIVE Split(_, _)
Split(s, sep) ==
    LET i == Find(s, sep)
    IN  IF i = -1 THEN <<s>>
        ELSE <<SubSeq(s, 1, i)>> \o Split(SubSeq(s, i + Len(sep) + 1, Len(s)), sep)

\* str.replace(c, r) for a one-character c
RECURSIVE Replace(_, _, _)
Replace(s, c, r) ==
    IF s = <<>> THEN <<>>
    ELSE (IF Head(s) = c THEN r ELSE <<Head(s)>>) \o Replace(Tail(s), c, r)

\* s[i] with Python's index rules: negative indexes count from the end
InRange(s, i) == (i >= 0 /\ i < Len(s)) \/ (i < 0 /\ 0 - i <= Len(s))
At(s, i) == IF i >= 0 THEN <<s[i + 1]>> ELSE <<s[Len(s) + i + 1]>>

Range(f) == {f[i] : i \in DOMAIN f}

----------------------------------------------------------------------------
(* The markup tree handed over by the document-parsing library *)

Text(s) == [kind |-> "str", name |-> "", cls |-> "", style |-> "",
            attr |-> <<>>, kids |-> <<>>, s |-> s]

Tag(name, cls, style, attr, kids) ==
    [kind |-> "tag", name |-> name, cls |-> cls, style |-> style,
     attr |-> attr, kids |-> kids, s |-> <<>>]

IsStr(n) == n.kind = "str"

\* <img src=.../>: attr holds the characters of its attributes
Img(attr) == Tag("img", "", "", attr, <<>>)
Br == Tag("br", "", "", <<>>, <<>>)
BrStr == <<"<", "br", "/", ">">>

VoidTags == {"img", "br"}

\* str(node): the markup of a tag, the raw text of a text node
RECURSIVE Str(_)
RECURSIVE StrKids(_)
StrKids(ks) == IF ks = <<>> THEN <<>> ELSE Str(Head(ks)) \o StrKids(Tail(ks))
Str(n) ==
    IF IsStr(n) THEN n.s
    ELSE LET attrs == (IF n.cls = "" THEN <<>> ELSE <<n.cls>>)
                      \o (IF n.style = "" THEN <<>> ELSE <<n.style>>)
                      \o n.attr
         IN  IF n.name \in VoidTags
             THEN <<"<", n.name>> \o attrs \o <<"/", ">">>
             ELSE <<"<", n.name>> \o attrs \o <<">">> \o StrKids(n.kids)
                  \o <<"<", "/", n.name, ">">>

\* node.text: the concatenated text of the node's descendants
RECURSIVE TextOf(_)
RECURSIVE TextOfKids(_)
TextOfKids(ks) ==
    IF ks = <<>> THEN <<>> ELSE TextOf(Head(ks)) \o TextOfKids(Tail(ks))
TextOf(n) == IF IsStr(n) THEN n.s ELSE TextOfKids(n.kids)

\* the parser never yields two adjacent text nodes
RECURSIVE Merge(_)
Merge(ns) ==
    IF Len(ns) < 2 THEN ns
    ELSE IF IsStr(ns[1]) /\ IsStr(ns[2])
         THEN Merge(<<Text(ns[1].s \o ns[2].s)>> \o SubSeq(ns, 3, Len(ns)))
         ELSE <<ns[1]>> \o Merge(Tail(ns))

----------------------------------------------------------------------------
(* KanjiType *)

SHIJI == "1"
SHOUKEI == "2"
KAII == "3"
KEISEI == "4"
TENCHUU == "5"
KASHA == "6"

KanjiTypes == {SHIJI, SHOUKEI, KAII, KEISEI, TENCHUU, KASHA}

namemap == [k \in KanjiTypes |->
              CASE k = SHIJI -> <<"shi", "ji">>
                [] k = SHOUKEI -> <<"shou", "kei">>
                [] k = KAII -> <<"kai", "i">>
                [] k = KEISEI -> <<"kei", "sei">>
                [] k = TENCHUU -> <<"ten", "chuu">>
                [] k = KASHA -> <<"ka", "sha">>]

GetKanjiTypes(text) == {k \in KanjiTypes : Contains(text, namemap[k])}

----------------------------------------------------------------------------
(* Entry *)

NewEntry ==
    [origin_url |-> NoneVal, kanji |-> NoneVal, old_form |-> {},
     radical |-> NoneVal, semantic_comp |-> {}, phonetic_comp |-> NoneVal,
     types |-> {}, related_kanji |-> {}, onyomi |-> {}, kunyomi |-> {},
     onyomi_ext |-> {}, kunyomi_ext |-> {}, onyomi_all |-> {},
     kunyomi_all |-> {}]

\* the outcome of a method: the object as left behind, and the exception raised
Ok(self) == [self |-> self, err |-> "none"]
Raise(self, e) == [self |-> self, err |-> e]

\* tag.contents[i]
ContentsErr(tag, i) == IF IsStr(tag) THEN "AttributeError"
                       ELSE IF i >= Len(tag.kids) THEN "IndexError"
                       ELSE "none"
Contents(tag, i) == tag.kids[i + 1]

----------------------------------------------------------------------------
(* Exception table: decomposition overrides *)

ImgLit(src) == <<"<", "img", src, ">">>

SpecialEntryKanji ==
    {"KJ_hi", "kai", "KJ_en", "KJ_hei", "KJ_ho", "KJ_mon", "KJ_rin", "KJ_jou",
     "KJ_shin", "KJ_hin", "KJ_hou", "KJ_you", "KJ_mori", "KJ_gai", "KJ_kei",
     "KJ_kei2", "KJ_ko"}

SpecialSemantic(k) ==
    CASE k = "KJ_hi" -> {<<"hito">>}
      [] k = "kai" -> {<<"sou">>, ImgLit("src500064")}
      [] k = "KJ_en" -> {<<"hi_fire">>}
      [] k = "KJ_hei" -> {<<"tatsu">>}
      [] k = "KJ_ho" -> {<<"tomaru">>}
      [] k = "KJ_mon" -> {<<"to_door">>}
      [] k = "KJ_rin" -> {<<"ki">>}
      [] k = "KJ_jou" -> {<<"ki">>, <<"hito">>}
      [] k = "KJ_shin" -> {<<"hito">>, <<"houki">>, <<"mata">>}
      [] k = "KJ_hin" -> {<<"kuchi">>}
      [] k = "KJ_hou" -> {<<"hito">>, ImgLit("src500065")}
      [] k = "KJ_you" -> {}
      [] k = "KJ_mori" -> {<<"ki">>}
      [] k = "KJ_gai" -> {<<"kokoro">>}
      [] k = "KJ_kei" -> {<<"ito">>}
      [] k = "KJ_kei2" -> {<<"kokoro">>}
      [] k = "KJ_ko" -> {<<"kane">>}

SpecialPhoneticKanji == {"KJ_gai", "KJ_kei", "KJ_kei2", "KJ_ko"}

SpecialPhonetic(k) ==
    CASE k = "KJ_gai" -> ImgLit("src2293")
      [] k = "KJ_kei" -> ImgLit("src2565")
      [] k = "KJ_kei2" -> <<"kei_view">>
      [] k = "KJ_ko" -> <<"katai">>

\* Entry._handle_special_entries: hit is the returned bool
HandleSpecialEntries(self) ==
    IF \E k \in SpecialEntryKanji : self.kanji = <<k>>
    THEN LET k == CHOOSE k \in SpecialEntryKanji : self.kanji = <<k>>
         IN  [hit |-> TRUE,
              self |-> [self EXCEPT
                  !.semantic_comp = @ \cup SpecialSemantic(k),
                  !.phonetic_comp = IF k \in SpecialPhoneticKanji
                                    THEN SpecialPhonetic(k) ELSE @]]
    ELSE [hit |-> FALSE, self |-> self]

----------------------------------------------------------------------------
(* Decomposition extractor *)

\* re.sub(r"(FL[^()]*FR|\([^()]*\))", "", s): leftmost matches, greedy body
RECURSIVE ReSubParens(_)
ReSubParens(s) ==
    IF s = <<>> THEN <<>>
    ELSE LET n == Len(s)
             NoAscii(j) == \A k \in 2..(j - 1) : s[k] \notin {"(", ")"}
             wide == {j \in 2..n : s[j] = "FR" /\ NoAscii(j)}
             ascii == {j \in 2..n : s[j] = ")" /\ NoAscii(j)}
             Max(S) == CHOOSE j \in S : \A k \in S : k <= j
         IN  IF Head(s) = "FL" /\ wide # {}
             THEN ReSubParens(SubSeq(s, Max(wide) + 1, n))
             ELSE IF Head(s) = "(" /\ ascii # {}
             THEN ReSubParens(SubSeq(s, Max(ascii) + 1, n))
             ELSE <<Head(s)>> \o ReSubParens(Tail(s))

IFU == <<"i", "fu">>
ONPU == <<"on", "fu">>
TO == <<"to">>

\* the text _parse_components works on (lines 122-123)
Naritachi(tag) ==
    LET segs == Split(Str(tag), BrStr)
    IN  ReSubParens(segs[Len(segs)])

\* lines 143-158 without the KAII test of line 146: the phonetic component is
\* always read at the phonetic marker
KeiseiPhonetic_AtOnpu(self, n, tag, parsable) ==
    LET i0 == Find(n, ONPU) + 2
        slot == IF parsable THEN 1 ELSE 2
    IN  IF ~InRange(n, i0) THEN Raise(self, "IndexError")
        ELSE LET onpu == At(n, i0)
             IN  IF onpu # <<"<">>
                 THEN Ok([self EXCEPT !.phonetic_comp = onpu,
                                      !.semantic_comp = @ \cup {onpu}])
                 ELSE IF ContentsErr(tag, slot) # "none"
                 THEN Raise(self, ContentsErr(tag, slot))
                 ELSE Ok([self EXCEPT
                          !.phonetic_comp = Str(Contents(tag, slot)),
                          !.semantic_comp = @ \cup {Str(Contents(tag, slot))}])

\* lines 143-158: the phonetic component of a KEISEI entry
KeiseiPhonetic(self, n, tag, parsable) ==
    LET i0 == Find(n, ONPU) + 2
        i1 == Find(n, TO) + 2
        both == KAII \in self.types
        slot == IF parsable THEN 1 ELSE 2
    IN  IF ~InRange(n, i0) THEN Raise(self, "IndexError")
        ELSE IF both /\ ~InRange(n, i1) THEN Raise(self, "IndexError")
        ELSE LET onpu == IF both THEN At(n, i1) ELSE At(n, i0)
             IN  IF onpu # <<"<">>
                 THEN Ok([self EXCEPT !.phonetic_comp = onpu,
                                      !.semantic_comp = @ \cup {onpu}])
                 ELSE IF ContentsErr(tag, slot) # "none"
                 THEN Raise(self, ContentsErr(tag, slot))
                 ELSE Ok([self EXCEPT
                          !.phonetic_comp = Str(Contents(tag, slot)),
                          !.semantic_comp = @ \cup {Str(Contents(tag, slot))}])

\* lines 130-158
KeiseiBranch(self, n, tag) ==
    LET i == IF Find(n, IFU) # -1 THEN Find(n, IFU) + 2 ELSE Find(n, TO) - 1
    IN  IF ~InRange(n, i) THEN Raise(self, "IndexError")
        ELSE LET ifu == At(n, i)
                 parsable == ifu # <<">">> /\ ifu # <<"<">>
             IN  IF parsable
                 THEN KeiseiPhonetic(
                          [self EXCEPT !.semantic_comp = @ \cup {ifu}],
                          n, tag, TRUE)
                 ELSE IF ContentsErr(tag, 1) # "none"
                 THEN Raise(self, ContentsErr(tag, 1))
                 ELSE KeiseiPhonetic(
                          [self EXCEPT !.semantic_comp =
                               @ \cup {Str(Contents(tag, 1))}],
                          n, tag, FALSE)

\* lines 160-175: the second semantic component of a KAII-only entry
KaiiSecond(self, n, tag, parsable) ==
    LET i == Find(n, TO) + 2
        slot == IF parsable THEN 1 ELSE 2
    IN  IF ~InRange(n, i) THEN Raise(self, "IndexError")
        ELSE LET ifu == At(n, i)
             IN  IF ifu # <<">">> /\ ifu # <<"<">>
                 THEN Ok([self EXCEPT !.semantic_comp = @ \cup {ifu}])
                 ELSE IF ContentsErr(tag, slot) # "none"
                 THEN Raise(self, ContentsErr(tag, slot))
                 ELSE Ok([self EXCEPT !.semantic_comp =
                              @ \cup {Str(Contents(tag, slot))}])

KaiiBranch(self, n, tag) ==
    LET i == Find(n, TO) - 1
    IN  IF ~InRange(n, i) THEN Raise(self, "IndexError")
        ELSE LET ifu == At(n, i)
                 parsable == ifu # <<">">> /\ ifu # <<"<">>
             IN  IF parsable
                 THEN KaiiSecond([self EXCEPT !.semantic_comp = @ \cup {ifu}],
                                 n, tag, TRUE)
                 ELSE IF ContentsErr(tag, 1) # "none"
                 THEN Raise(self, ContentsErr(tag, 1))
                 ELSE KaiiSecond([self EXCEPT !.semantic_comp =
                                      @ \cup {Str(Contents(tag, 1))}],
                                 n, tag, FALSE)

\* Entry._parse_components without the return of line 128: the general
\* extraction runs on top of the override
ParseComponents_NoReturn(self, tag) ==
    LET n == Naritachi(tag)
        typed == [self EXCEPT !.types = GetKanjiTypes(n)]
        special == HandleSpecialEntries(typed)
    IN  IF KEISEI \in typed.types THEN KeiseiBranch(special.self, n, tag)
        ELSE IF KAII \in typed.types THEN KaiiBranch(special.self, n, tag)
        ELSE Ok(special.self)

\* Entry._parse_components with line 160 a plain else
ParseComponents_ElseKaii(self, tag) ==
    LET n == Naritachi(tag)
        typed == [self EXCEPT !.types = GetKanjiTypes(n)]
        special == HandleSpecialEntries(typed)
    IN  IF special.hit THEN Ok(special.self)
        ELSE IF KEISEI \in typed.types THEN KeiseiBranch(typed, n, tag)
        ELSE KaiiBranch(typed, n, tag)

\* Entry._parse_components
ParseComponents(self, tag) ==
    LET n == Naritachi(tag)
        typed == [self EXCEPT !.types = GetKanjiTypes(n)]
        special == HandleSpecialEntries(typed)
    IN  IF special.hit THEN Ok(special.self)
        ELSE IF KEISEI \in typed.types THEN KeiseiBranch(typed, n, tag)
        ELSE IF KAII \in typed.types THEN KaiiBranch(typed, n, tag)
        ELSE Ok(typed)

----------------------------------------------------------------------------
(* Reading list extractor *)

SEP == <<"sep">>
GAI == <<"gai">>

Most(q) == SubSeq(q, 1, Len(q) - 1)
Last(q) == q[Len(q)]

\* self.<field>.add(r)
AddTo(st, field, r) ==
    CASE field = "onyomi" -> [st EXCEPT !.onyomi = @ \cup {r}]
      [] field = "onyomi_ext" -> [st EXCEPT !.onyomi_ext = @ \cup {r}]
      [] field = "kunyomi" -> [st EXCEPT !.kunyomi = @ \cup {r}]
      [] field = "kunyomi_ext" -> [st EXCEPT !.kunyomi_ext = @ \cup {r}]

\* _get_on_reading (lines 179-184); st.ext is in_ext_mode
RECURSIVE AddOnPieces(_, _)
AddOnPieces(st, pieces) ==
    IF pieces = <<>> THEN st
    ELSE AddOnPieces(
             AddTo(st, IF st.ext THEN "onyomi_ext" ELSE "onyomi",
                   Strip(Head(pieces))),
             Tail(pieces))

GetOnReading(st, element) ==
    AddOnPieces(st, Split(Replace(Strip(Str(element)), "sep", <<"sp">>),
                          <<"sp">>))

IsExtImg(n) == n.name = "img" /\ Contains(Str(n), GAI)

\* lines 191-196: the children of a span of the onyomi paragraph
RECURSIVE OnSpanKids(_, _)
OnSpanKids(st, kids) ==
    IF kids = <<>> THEN st
    ELSE LET c == Head(kids)
         IN  OnSpanKids(IF IsStr(c) THEN GetOnReading(st, c)
                        ELSE IF IsExtImg(c) THEN [st EXCEPT !.ext = TRUE]
                        ELSE st,
                        Tail(kids))

\* lines 186-198: the onyomi pass
RECURSIVE OnPass(_, _)
OnPass(st, kids) ==
    IF kids = <<>> THEN st
    ELSE LET c == Head(kids)
         IN  OnPass(IF IsStr(c) THEN GetOnReading(st, c)
                    ELSE IF c.name = "span" THEN OnSpanKids(st, c.kids)
                    ELSE IF IsExtImg(c) THEN [st EXCEPT !.ext = TRUE]
                    ELSE st,
                    Tail(kids))

\* lines 214-220 and 250-257: the pieces before the last separator of a suffix
RECURSIVE FusePieces(_, _, _)
FusePieces(st, pieces, field) ==
    IF pieces = <<>> THEN st
    ELSE LET kb == IF Strip(st.kb) # <<>> THEN st.kb \o <<".">> ELSE st.kb
             added == AddTo(st, field, Strip(kb \o Strip(Head(pieces))))
         IN  FusePieces([added EXCEPT !.kb = <<>>], Tail(pieces), field)

\* lines 225-227, 236-238, 262-265, 276-278, 284-286
RECURSIVE FlushPieces(_, _, _)
FlushPieces(st, pieces, field) ==
    IF pieces = <<>> THEN st
    ELSE FlushPieces(IF Strip(Head(pieces)) # <<>>
                     THEN AddTo(st, field, Strip(Head(pieces))) ELSE st,
                     Tail(pieces), field)

\* lines 212-233 and 248-271 without the resets of lines 233 and 271: the
\* stem stays in the builder after it was fused
FuseSuffix_KeepsStem(st, t, field, stripLast) ==
    IF Contains(t, SEP)
    THEN LET kuns == Split(t, SEP)
             fused == FusePieces(st, Most(kuns), field)
         IN  [fused EXCEPT !.kb = IF stripLast THEN Strip(Last(kuns))
                                  ELSE Last(kuns)]
    ELSE LET flushed ==
                 IF Contains(st.kb, SEP)
                 THEN LET kuns == Split(st.kb, SEP)
                      IN  [FlushPieces(st, Most(kuns), field)
                              EXCEPT !.kb = Last(kuns)]
                 ELSE st
         IN  AddTo(flushed, field,
                   Strip(Replace(flushed.kb \o <<".">> \o t, "sep", <<>>)))

\* lines 212-233 (field kunyomi, last piece stripped) and
\* lines 248-271 (field kunyomi_ext, last piece kept as is)
FuseSuffix(st, t, field, stripLast) ==
    IF Contains(t, SEP)
    THEN LET kuns == Split(t, SEP)
             fused == FusePieces(st, Most(kuns), field)
         IN  [fused EXCEPT !.kb = IF stripLast THEN Strip(Last(kuns))
                                  ELSE Last(kuns)]
    ELSE LET flushed ==
                 IF Contains(st.kb, SEP)
                 THEN LET kuns == Split(st.kb, SEP)
                      IN  [FlushPieces(st, Most(kuns), field)
                              EXCEPT !.kb = Last(kuns)]
                 ELSE st
             added == AddTo(flushed, field,
                            Strip(Replace(flushed.kb \o <<".">> \o t,
                                          "sep", <<>>)))
         IN  [added EXCEPT !.kb = <<>>]

\* lines 210-233: the children of a txtNormal span
RECURSIVE NormalSpanKids(_, _)
NormalSpanKids(st, kids) ==
    IF kids = <<>> THEN st
    ELSE LET c == Head(kids)
         IN  NormalSpanKids(IF c.name # "img"
                            THEN FuseSuffix(st, Str(c), "kunyomi", TRUE)
                            ELSE st,
                            Tail(kids))

\* lines 247-271: the children of a tag inside the extended-region span
RECURSIVE ExtInnerKids(_, _)
ExtInnerKids(st, kids) ==
    IF kids = <<>> THEN st
    ELSE ExtInnerKids(FuseSuffix(st, Str(Head(kids)), "kunyomi_ext", FALSE),
                      Tail(kids))

\* lines 242-271: the children of the extended-region span
RECURSIVE ExtSpanKids(_, _)
ExtSpanKids(st, kids) ==
    IF kids = <<>> THEN st
    ELSE LET c == Head(kids)
         IN  ExtSpanKids(IF IsStr(c) THEN [st EXCEPT !.kb = @ \o Strip(c.s)]
                         ELSE IF c.name # "img" THEN ExtInnerKids(st, c.kids)
                         ELSE st,
                         Tail(kids))

NORMAL == "txtNormal"
EXTSTYLE == "color:#000000"

\* lines 234-271: the extended-region span
ExtSpan(st, c) ==
    LET flushed == IF st.kb # <<>>
                   THEN FlushPieces(st, Split(st.kb, SEP), "kunyomi")
                   ELSE st
    IN  ExtSpanKids([flushed EXCEPT !.kb = <<>>, !.ext = TRUE], c.kids)

\* lines 203-271: the kunyomi pass
RECURSIVE KunPass(_, _)
KunPass(st, kids) ==
    IF kids = <<>> THEN st
    ELSE LET c == Head(kids)
         IN  KunPass(IF IsStr(c) THEN [st EXCEPT !.kb = @ \o Strip(c.s)]
                     ELSE IF c.name = "span" /\ c.cls = NORMAL
                     THEN NormalSpanKids(st, c.kids)
                     ELSE IF c.name = "span" /\ c.style = EXTSTYLE
                     THEN ExtSpan(st, c)
                     ELSE st,
                     Tail(kids))

\* lines 272-288: the flush at the end of the walk
FinalFlush(st) ==
    LET field == IF st.ext THEN "kunyomi_ext" ELSE "kunyomi"
    IN  IF st.kb = <<>> THEN st
        ELSE IF Contains(st.kb, SEP)
        THEN FlushPieces(st, Split(st.kb, SEP), field)
        ELSE AddTo(st, field, Strip(st.kb))

Walk(self, kb, ext) ==
    [onyomi |-> self.onyomi, onyomi_ext |-> self.onyomi_ext,
     kunyomi |-> self.kunyomi, kunyomi_ext |-> self.kunyomi_ext,
     kb |-> kb, ext |-> ext]

Store(self, st) ==
    [self EXCEPT !.onyomi = st.onyomi, !.onyomi_ext = st.onyomi_ext,
                 !.kunyomi = st.kunyomi, !.kunyomi_ext = st.kunyomi_ext]

\* Entry._parse_readings
ParseReadings(self, list_tag) ==
    IF Len(list_tag) < 1 THEN Raise(self, "IndexError")
    ELSE LET on == Store(self, OnPass(Walk(self, <<>>, FALSE),
                                      list_tag[1].kids))
         IN  IF Len(list_tag) < 2 THEN Raise(on, "IndexError")
             ELSE Ok(Store(on, FinalFlush(KunPass(Walk(on, <<>>, FALSE),
                                                  list_tag[2].kids))))

----------------------------------------------------------------------------
(* Exception table: reading overrides *)

SpecialReadingKanji == {"KJ_gi", "KJ_raku", "KJ_ka"}

SpecialOnyomi(k) ==
    CASE k = "KJ_gi" -> {<<"GI">>}
      [] k = "KJ_raku" -> {<<"RAKU">>}
      [] k = "KJ_ka" -> {<<"KA">>}

SpecialKunyomi(k) ==
    CASE k = "KJ_gi" -> {}
      [] k = "KJ_raku" -> {<<"kara", ".", "mu">>, <<"kara", ".", "maru">>,
                           <<"kara", ".", "meru">>}
      [] k = "KJ_ka" -> {<<"ha", ".", "tasu">>, <<"ha", ".", "teru">>,
                         <<"ha", ".", "te">>}

SpecialKunyomiExt(k) ==
    CASE k = "KJ_gi" -> {<<"nazora", ".", "eru">>, <<"haka", ".", "ru">>,
                         <<"magai">>, <<"madoki">>, <<"mado", ".", "ku">>}
      [] k = "KJ_raku" -> {<<"mato", ".", "u">>, <<"kara", ".", "geru">>,
                           <<"tsuna", ".", "garu">>}
      [] k = "KJ_ka" -> {<<"kudamono">>, <<"ha", ".", "tashite">>,
                         <<"oo", ".", "seru">>, <<"haka">>}

\* Entry._handle_special_readings: hit is the returned bool
HandleSpecialReadings(self) ==
    IF \E k \in SpecialReadingKanji : self.kanji = <<k>>
    THEN LET k == CHOOSE k \in SpecialReadingKanji : self.kanji = <<k>>
         IN  [hit |-> TRUE,
              self |-> [self EXCEPT
                  !.onyomi = @ \cup SpecialOnyomi(k),
                  !.kunyomi = @ \cup SpecialKunyomi(k),
                  !.kunyomi_ext = @ \cup SpecialKunyomiExt(k)]]
    ELSE [hit |-> FALSE, self |-> self]

----------------------------------------------------------------------------
(* Entry assembler *)

NoneNode == [kind |-> "none", name |-> "", cls |-> "", style |-> "",
             attr |-> <<>>, kids |-> <<>>, s |-> <<>>]
IsNone(n) == n.kind = "none"

\* str(None)
NoneStr == <<"N", "o", "n", "e">>

RECURSIVE Chars(_)
Chars(s) == IF s = <<>> THEN {} ELSE {<<Head(s)>>} \cup Chars(Tail(s))

\* Entry._parse_related_kanji: the comparison with self.kanji has no effect
ParseRelatedKanji(self, bushu_list) ==
    IF IsNone(bushu_list) THEN Raise(self, "AttributeError")
    ELSE Ok([self EXCEPT !.related_kanji =
                 @ \cup Chars(Replace(TextOf(bushu_list), "nl", <<>>))])

\* lines 384-389: the old forms
RECURSIVE OldForms(_, _)
OldForms(self, subs) ==
    IF subs = <<>> THEN Ok(self)
    ELSE LET o == Head(subs)
         IN  IF TextOf(o) # self.kanji
             THEN IF o.kids = <<>> THEN Raise(self, "IndexError")
                  ELSE OldForms([self EXCEPT !.old_form =
                                     @ \cup {Str(o.kids[1])}], Tail(subs))
             ELSE OldForms(self, Tail(subs))

\* the nodes that follow a tag in document order: its descendants, then
\* whatever the document holds after it
RECURSIVE PreOrder(_)
RECURSIVE PreOrderKids(_)
PreOrderKids(ks) ==
    IF ks = <<>> THEN <<>> ELSE PreOrder(Head(ks)) \o PreOrderKids(Tail(ks))
PreOrder(n) == <<n>> \o PreOrderKids(n.kids)

\* lines 391-392: str(bushu.next_element.next_element)
Radical(self, bushu, after) ==
    IF IsNone(bushu) THEN Raise(self, "AttributeError")
    ELSE LET following == PreOrderKids(bushu.kids) \o PreOrderKids(after)
         IN  IF Len(following) < 1 THEN Raise(self, "AttributeError")
             ELSE IF Len(following) < 2
             THEN Ok([self EXCEPT !.radical = NoneStr])
             ELSE Ok([self EXCEPT !.radical = Str(following[2])])

\* lines 395-405 skipped for a character of the reading-override table
Formation_OneLookup(self, li) ==
    IF IsNone(li) \/ HandleSpecialReadings(self).hit THEN Ok(self)
    ELSE IF Len(li.kids) < 2 THEN Raise(self, "IndexError")
    ELSE LET c2 == li.kids[Len(li.kids) - 1]
             outer == IF IsStr(c2) /\ c2.s = <<"nl">>
                      THEN li.kids[Len(li.kids)] ELSE c2
         IN  IF IsStr(outer) THEN Ok(self)
             ELSE IF Len(outer.kids) < 2 THEN Raise(self, "IndexError")
             ELSE LET r == ParseComponents(self, outer.kids[2])
                  IN  IF r.err = "AttributeError" THEN Ok(r.self) ELSE r

\* lines 395-405: AttributeError is caught, anything else propagates
Formation(self, li) ==
    IF IsNone(li) THEN Ok(self)
    ELSE IF Len(li.kids) < 2 THEN Raise(self, "IndexError")
    ELSE LET c2 == li.kids[Len(li.kids) - 1]
             outer == IF IsStr(c2) /\ c2.s = <<"nl">>
                      THEN li.kids[Len(li.kids)] ELSE c2
         IN  IF IsStr(outer) THEN Ok(self)
             ELSE IF Len(outer.kids) < 2 THEN Raise(self, "IndexError")
             ELSE LET r == ParseComponents(self, outer.kids[2])
                  IN  IF r.err = "AttributeError" THEN Ok(r.self) ELSE r

\* lines 407-412 with the unions taken over the primary sets alone
Readings_PrimaryOnly(self, list_tag) ==
    LET special == HandleSpecialReadings(self)
        r == IF special.hit THEN Ok(special.self)
             ELSE ParseReadings(self, list_tag)
    IN  IF r.err # "none" THEN r
        ELSE Ok([r.self EXCEPT !.onyomi_all = r.self.onyomi,
                               !.kunyomi_all = r.self.kunyomi])

\* lines 407-412
Readings(self, list_tag) ==
    LET special == HandleSpecialReadings(self)
        r == IF special.hit THEN Ok(special.self)
             ELSE ParseReadings(self, list_tag)
    IN  IF r.err # "none" THEN r
        ELSE Ok([r.self EXCEPT
                 !.onyomi_all = r.self.onyomi \cup r.self.onyomi_ext,
                 !.kunyomi_all = r.self.kunyomi \cup r.self.kunyomi_ext])

\* Entry._parse_HTML
ParseHTML(self, d) ==
    IF IsNone(d.oyaji) THEN Raise(self, "AttributeError")
    ELSE LET named == [self EXCEPT !.kanji = TextOf(d.oyaji)]
             r1 == OldForms(named, d.sub_kanji)
             r2 == IF r1.err # "none" THEN r1
                   ELSE Radical(r1.self, d.bushu, d.after_bushu)
             r3 == IF r2.err # "none" THEN r2
                   ELSE Formation(r2.self, d.naritachi)
             r4 == IF r3.err # "none" THEN r3
                   ELSE Readings(r3.self, d.list_tag)
         IN  IF r4.err # "none" THEN r4
             ELSE ParseRelatedKanji(r4.self, d.same_bushu)

KANJIPEDIA_URL == <<"kp">>

\* Entry.FromURL, given the document the server answers with
FromURL(url, d) ==
    LET full == IF Contains(url, KANJIPEDIA_URL) THEN url
                ELSE KANJIPEDIA_URL \o url
    IN  ParseHTML([NewEntry EXCEPT !.origin_url = Strip(full)], d)

----------------------------------------------------------------------------
(* Serialization *)

\* list(set): the elements in some order; the order is not the program's choice
RECURSIVE SetToSeq(_)
SetToSeq(S) ==
    IF S = {} THEN <<>>
    ELSE LET x == CHOOSE x \in S : TRUE IN <<x>> \o SetToSeq(S \ {x})

RECURSIVE Reverse(_)
Reverse(q) == IF q = <<>> THEN <<>> ELSE Reverse(Tail(q)) \o <<Head(q)>>

ListOf(S, rev) == IF rev THEN Reverse(SetToSeq(S)) ELSE SetToSeq(S)

\* Entry.GetDataDict without the two extended reading lists
GetDataDict_NoExt(self, rev) ==
    [kanji |-> self.kanji,
     origin_url |-> self.origin_url,
     old_form |-> ListOf(self.old_form, rev),
     radical |-> self.radical,
     semantic_comp |-> ListOf(self.semantic_comp, rev),
     phonetic_comp |-> self.phonetic_comp,
     types |-> ListOf(self.types, rev),
     related_kanji |-> ListOf(self.related_kanji, rev),
     onyomi |-> ListOf(self.onyomi, rev),
     kunyomi |-> ListOf(self.kunyomi, rev),
     onyomi_all |-> ListOf(self.onyomi_all, rev),
     kunyomi_all |-> ListOf(self.kunyomi_all, rev)]

\* Entry.GetDataDict
GetDataDict(self, rev) ==
    [kanji |-> self.kanji,
     origin_url |-> self.origin_url,
     old_form |-> ListOf(self.old_form, rev),
     radical |-> self.radical,
     semantic_comp |-> ListOf(self.semantic_comp, rev),
     phonetic_comp |-> self.phonetic_comp,
     types |-> ListOf(self.types, rev),
     related_kanji |-> ListOf(self.related_kanji, rev),
     onyomi |-> ListOf(self.onyomi, rev),
     onyomi_ext |-> ListOf(self.onyomi_ext, rev),
     kunyomi |-> ListOf(self.kunyomi, rev),
     kunyomi_ext |-> ListOf(self.kunyomi_ext, rev),
     onyomi_all |-> ListOf(self.onyomi_all, rev),
     kunyomi_all |-> ListOf(self.kunyomi_all, rev)]

\* data.get(key, [])
GetOr(data, key) == IF key \in DOMAIN data THEN data[key] ELSE <<>>

RequiredKeys == {"origin_url", "kanji", "old_form", "radical", "semantic_comp",
                 "phonetic_comp", "types", "related_kanji", "onyomi",
                 "kunyomi"}

\* Entry.FromJSON
FromJSON(data) ==
    IF ~(RequiredKeys \subseteq DOMAIN data) THEN Raise(NewEntry, "KeyError")
    ELSE IF ~(Range(data.types) \subseteq KanjiTypes)
    THEN Raise(NewEntry, "ValueError")
    ELSE Ok([origin_url |-> data.origin_url,
             kanji |-> data.kanji,
             old_form |-> Range(data.old_form),
             radical |-> data.radical,
             semantic_comp |-> Range(data.semantic_comp),
             phonetic_comp |-> data.phonetic_comp,
             types |-> Range(data.types),
             related_kanji |-> Range(data.related_kanji),
             onyomi |-> Range(data.onyomi),
             kunyomi |-> Range(data.kunyomi),
             onyomi_ext |-> Range(GetOr(data, "onyomi_ext")),
             kunyomi_ext |-> Range(GetOr(data, "kunyomi_ext")),
             onyomi_all |-> Range(GetOr(data, "onyomi_all")),
             kunyomi_all |-> Range(GetOr(data, "kunyomi_all"))])

----------------------------------------------------------------------------
(* KanjiDB *)

\* table.upsert(data, kanji == data["kanji"])
Upsert(table, data) ==
    IF \E i \in DOMAIN table : table[i].kanji = data.kanji
    THEN [i \in DOMAIN table |->
              IF table[i].kanji = data.kanji THEN data ELSE table[i]]
    ELSE Append(table, data)

\* KanjiDB.AddOrUpdate
AddOrUpdate(table, e, rev) == Upsert(table, GetDataDict(e, rev))

\* table.search(kanji == k)
RECURSIVE SearchKanji(_, _)
SearchKanji(table, k) ==
    IF table = <<>> THEN <<>>
    ELSE (IF Head(table).kanji = k THEN <<Head(table)>> ELSE <<>>)
         \o SearchKanji(Tail(table), k)

\* KanjiDB.GetKanji
GetKanji(table, k) ==
    LET found == SearchKanji(table, k)
    IN  IF found = <<>> THEN Raise(NewEntry, "IndexError")
        ELSE FromJSON(found[1])

----------------------------------------------------------------------------
(* Inputs of the decomposition extractor *)

\* most filler characters between the classification and the components
MaxFill == 1

TypeTexts ==
    {<<>>, <<"kei", "sei">>, <<"kai", "i", "kei", "sei">>, <<"kai", "i">>,
     <<"shou", "kei">>, <<"shi", "ji">>}

Fills(maxFill) == UNION {[1..n -> {"z"}] : n \in 0..maxFill}

ImgA == Img(<<"srcA">>)
ImgB == Img(<<"srcB">>)

SemParts == {<<>>, <<Text(IFU \o <<"A">>)>>, <<Text(IFU), ImgA>>,
             <<Text(<<"A">>)>>, <<ImgA>>}

Asides == {<<>>, <<Text(<<"(", "y", ")">>)>>, <<Text(<<"FL", "y", "FR">>)>>}

Conns == {<<>>, <<Text(<<"to", ",">>)>>, <<Text(<<"to">>)>>}

OnpuParts == {<<>>, <<Text(ONPU)>>}

PhonParts == {<<>>, <<Text(<<"B">>)>>, <<ImgB>>}

Tails == {<<>>, <<Text(<<"FL", "w", "FR", "to", "kara">>)>>}

\* an earlier explanation, closed by a line break
Hists == {<<>>, <<Text(<<"shou", "kei">>), Br>>}

TextIf(s) == IF s = <<>> THEN <<>> ELSE <<Text(s)>>

NaritachiTags(maxFill) ==
    {Tag("p", "", "", <<>>,
         Merge(h \o TextIf(ty \o f) \o sem \o a1 \o co \o on \o ph \o tl)) :
        h \in Hists, ty \in TypeTexts, f \in Fills(maxFill), sem \in SemParts,
        a1 \in Asides, co \in Conns, on \in OnpuParts, ph \in PhonParts,
        tl \in Tails}

\* characters without and with a decomposition override
ComponentKanji == {<<"X">>, <<"KJ_jou">>, <<"KJ_kei2">>}

ComponentInputs(maxFill) ==
    [kanji : ComponentKanji, naritachi_tag : NaritachiTags(maxFill)]

InitComponents ==
    /\ doc \in ComponentInputs(MaxFill)
    /\ entry = NewEntry
    /\ err = "none"
    /\ pc = "input"
    /\ db = <<>>
    /\ loaded = NewEntry
    /\ Untouched

\* _parse_components on a fresh Entry of the character
RunComponents ==
    /\ pc = "input"
    /\ \E r \in {ParseComponents([NewEntry EXCEPT !.kanji = doc.kanji],
                                   doc.naritachi_tag)} :
           entry' = r.self /\ err' = r.err
    /\ pc' = "done"
    /\ UNCHANGED <<doc, db, loaded, kundb, result, batch>>

NextComponents == RunComponents

SpecComponents == InitComponents /\ [][NextComponents]_vars

----------------------------------------------------------------------------
(* Inputs of the reading list extractor *)

\* most children of the onyomi paragraph
MaxOnNodes == 2
\* most children of the kunyomi paragraph before the extended-region span
MaxPre == 2
\* most children of the extended-region span
MaxExtKids == 2

SeqsUpTo(S, n) == UNION {[1..m -> S] : m \in 0..n}

ExtImg == Img(GAI)
PlainImg == Img(<<"srcC">>)
Span(cls, style, kids) == Tag("span", cls, style, <<>>, kids)
Para(kids) == Tag("p", "onkunYomi", "", <<>>, Merge(kids))

OnTexts == {<<"KA">>, <<"KA", "sep", "KI">>, <<"nl">>, <<"KU", "sep">>,
            <<"sp", "KE">>}

OnNodes == {Text(t) : t \in OnTexts}
           \cup {ExtImg, PlainImg, Span("", "", <<ExtImg, Text(<<"KO">>)>>),
                 Span("", "", <<Text(<<"SA">>)>>)}

OnParas(maxOn) == {Para(k) : k \in SeqsUpTo(OnNodes, maxOn)}

KunTexts == {<<"a">>, <<"a", "sep", "b">>, <<"sp", "c">>, <<"nl">>}

Suffixes == {<<"x">>, <<"x", "sep", "y">>}

NormalSpan(t) == Span(NORMAL, "", <<Text(t)>>)

KunNodes == {Text(t) : t \in KunTexts}
            \cup {NormalSpan(t) : t \in Suffixes}

ExtTexts == {<<"d">>, <<"d", "sep", "e">>}

ExtNodes == {Text(t) : t \in ExtTexts} \cup {NormalSpan(<<"x">>), ExtImg}

ExtSpans(maxKids) == {<<>>} \cup {<<Span("", EXTSTYLE, Merge(k))>> :
                                     k \in SeqsUpTo(ExtNodes, maxKids)}

\* what may follow the extended-region span in the kunyomi paragraph
PostNodes == {<<>>, <<Text(<<"f">>)>>, <<Text(<<"f">>), NormalSpan(<<"x">>)>>}

KunParas(maxPre, maxKids) ==
    {Para(pre \o ext \o post) :
        pre \in SeqsUpTo(KunNodes, maxPre), ext \in ExtSpans(maxKids),
        post \in PostNodes}

SmallOnParas == {Para(<<Text(<<"KA">>), ExtImg, Text(<<"KI">>)>>)}
SmallKunParas == {Para(<<>>), Para(<<Text(<<"a">>), NormalSpan(<<"x">>)>>),
                  Para(<<Text(<<"a">>),
                         Span("", EXTSTYLE, <<ExtImg, Text(<<"d">>)>>)>>)}

ReadingInputs(maxOn, maxPre, maxKids) ==
    {<<on, kun>> : on \in OnParas(maxOn), kun \in SmallKunParas}
    \cup {<<on, kun>> : on \in SmallOnParas, kun \in KunParas(maxPre, maxKids)}

InitReadings ==
    /\ doc \in [list_tag : ReadingInputs(MaxOnNodes, MaxPre, MaxExtKids)]
    /\ entry = NewEntry
    /\ err = "none"
    /\ pc = "input"
    /\ db = <<>>
    /\ loaded = NewEntry
    /\ Untouched

\* _parse_readings on a fresh Entry
RunReadings ==
    /\ pc = "input"
    /\ \E r \in {ParseReadings(NewEntry, doc.list_tag)} :
           entry' = r.self /\ err' = r.err
    /\ pc' = "done"
    /\ UNCHANGED <<doc, db, loaded, kundb, result, batch>>

NextReadings == RunReadings

SpecReadings == InitReadings /\ [][NextReadings]_vars

----------------------------------------------------------------------------
(* Documents *)

\* characters with no override, a decomposition override, a reading override
DocKanji == {"X", "KJ_kei2", "KJ_ka"}

Oyaji(k) == Tag("p", "kanjiOyaji", "", <<>>, <<Text(<<k>>)>>)

SubKanji(kids) == Tag("p", "subKanji", "", <<>>, kids)

SubKanjiLists(k) ==
    {<<>>,
     <<SubKanji(<<Text(<<k>>)>>), SubKanji(<<Text(<<"OLD">>)>>)>>,
     <<SubKanji(<<Img(<<"srcOld">>)>>)>>}

Bushu == Tag("p", "kanjiBushu", "", <<>>,
             <<Tag("a", "", "", <<>>, <<Img(<<"srcRad">>)>>)>>)

FormationTags ==
    {Tag("p", "", "", <<>>, k) : k \in
        {<<Text(<<"kei", "sei", "i", "fu", "A", "to", ",", "on", "fu", "B",
                  "to", "kara">>)>>,
         <<Text(<<"kei", "sei", "i", "fu">>), ImgA,
           Text(<<"to", ",", "on", "fu", "B", "to", "kara">>)>>,
         <<Text(<<"kai", "i", "kei", "sei", "A", "to", ",", "B", "to",
                  "kara">>)>>,
         <<Text(<<"kai", "i", "A", "to", ",", "B", "to", "kara">>)>>,
         <<Text(<<"shou", "kei">>)>>,
         <<Text(<<"z">>)>>}}

\* the formation item of the page: line breaks around a block whose second
\* child is the formation text
NaritachiLi(tag) ==
    Tag("li", "naritachi", "", <<>>,
        <<Text(<<"nl">>),
          Tag("div", "", "", <<>>, <<Text(<<"nl">>), tag, Text(<<"nl">>)>>),
          Text(<<"nl">>)>>)

NaritachiItems == {NoneNode} \cup {NaritachiLi(t) : t \in FormationTags}

DocOnParas ==
    {Para(<<Text(<<"KA">>)>>),
     Para(<<Text(<<"KA", "sep", "KI">>), ExtImg, Text(<<"KU">>)>>),
     Para(<<Text(<<"nl">>), Span("", "", <<Text(<<"KA">>)>>), Text(<<"nl">>)>>)}

DocKunParas ==
    {Para(<<>>),
     Para(<<Text(<<"a">>), NormalSpan(<<"x">>), Text(<<"sep", "b">>)>>),
     Para(<<Text(<<"a", "sep", "b">>),
            Span("", EXTSTYLE, <<ExtImg, Text(<<"d">>), NormalSpan(<<"x">>)>>)>>),
     Para(<<Text(<<"a">>), NormalSpan(<<"x", "sep", "y">>),
            Span("", EXTSTYLE, <<ExtImg, Text(<<"d", "sep", "e">>)>>)>>)}

SameBushu(k) ==
    {Tag("ul", "", "", <<>>,
         <<Text(<<"nl">>), Tag("li", "", "", <<>>, <<Text(<<k>>)>>),
           Text(<<"nl">>), Tag("li", "", "", <<>>, <<Text(<<"R">>)>>)>>),
     Tag("ul", "", "", <<>>, <<Tag("li", "", "", <<>>, <<Text(<<"R", "S">>)>>)>>)}

MkDoc(k, subs, li, on, kun, same) ==
    [url |-> <<"/", k>>, oyaji |-> Oyaji(k), sub_kanji |-> subs,
     bushu |-> Bushu, after_bushu |-> <<>>, naritachi |-> li,
     list_tag |-> <<on, kun>>, same_bushu |-> same]

FormationA == CHOOSE t \in FormationTags : Len(t.kids) = 3
OnA == CHOOSE p \in DocOnParas : Len(p.kids) = 3 /\ ~IsStr(p.kids[2])
          /\ p.kids[2].name = "img"
KunA == CHOOSE p \in DocKunParas :
            Len(p.kids) = 2 /\ Len(p.kids[2].kids) = 3
SubA(k) == CHOOSE q \in SubKanjiLists(k) : Len(q) = 2
SameA(k) == CHOOSE u \in SameBushu(k) : Len(u.kids) = 4

\* formation text that ends right after the semantic marker
MarkerAtEnd == Tag("p", "", "", <<>>, <<Text(<<"kei", "sei", "i", "fu">>)>>)

\* pages with one anchor missing: the same-radical listing, the radical
\* paragraph, both reading paragraphs, the kunyomi paragraph; and a page
\* whose formation text ends with a marker
DamagedDocs(k) ==
    LET full == MkDoc(k, SubA(k), NaritachiLi(FormationA), OnA, KunA, SameA(k))
    IN  {[full EXCEPT !.same_bushu = NoneNode],
         [full EXCEPT !.bushu = NoneNode],
         [full EXCEPT !.list_tag = <<>>],
         [full EXCEPT !.list_tag = <<OnA>>],
         [full EXCEPT !.naritachi = NaritachiLi(MarkerAtEnd)]}

HtmlDocs(kanji) ==
    UNION {{MkDoc(k, subs, li, on, kun, same) :
               subs \in SubKanjiLists(k), li \in NaritachiItems,
               on \in DocOnParas, kun \in DocKunParas, same \in SameBushu(k)}
           \cup DamagedDocs(k) : k \in kanji}

InitHTML ==
    /\ doc \in HtmlDocs(DocKanji)
    /\ entry = NewEntry
    /\ err = "none"
    /\ pc = "input"
    /\ db = <<>>
    /\ loaded = NewEntry
    /\ Untouched

\* Entry.FromURL on the document
RunHTML ==
    /\ pc = "input"
    /\ \E r \in {FromURL(doc.url, doc)} : entry' = r.self /\ err' = r.err
    /\ pc' = "done"
    /\ UNCHANGED <<doc, db, loaded, kundb, result, batch>>

NextHTML == RunHTML

SpecHTML == InitHTML /\ [][NextHTML]_vars

----------------------------------------------------------------------------
(* The store: pages are fetched and stored, stored records are read back *)

StoreKanji == {"X", "KJ_ka"}

\* the pages the server may answer with: per character a full page, a page
\* with neither formation text nor readings, and a page without the
\* same-radical listing
StoreDocs ==
    UNION {{MkDoc(k, SubA(k), NaritachiLi(FormationA), OnA, KunA, SameA(k)),
            MkDoc(k, <<>>, NoneNode, Para(<<>>), Para(<<>>), SameA(k)),
            MkDoc(k, <<>>, NoneNode, OnA, KunA, NoneNode)} :
           k \in StoreKanji}

Init ==
    /\ doc = MkDoc("X", <<>>, NoneNode, Para(<<>>), Para(<<>>), NoneNode)
    /\ entry = NewEntry
    /\ err = "none"
    /\ pc = "idle"
    /\ db = <<>>
    /\ loaded = NewEntry
    /\ Untouched

\* one item of the ingestion loop (add_kanji_to_database.main): fetch, parse
\* and store; an exception leaves the store as it was
Load ==
    \E d \in StoreDocs, rev \in BOOLEAN :
        \E r \in {FromURL(d.url, d)} :
            /\ doc' = d
            /\ err' = r.err
            /\ pc' = "loaded"
            /\ IF r.err = "none"
               THEN entry' = r.self /\ db' = AddOrUpdate(db, r.self, rev)
               ELSE UNCHANGED <<entry, db>>
            /\ UNCHANGED <<loaded, kundb, result, batch>>

\* KanjiDB.GetKanji
Get ==
    \E k \in StoreKanji :
        \E r \in {GetKanji(db, <<k>>)} :
            /\ err' = r.err
            /\ pc' = "got"
            /\ loaded' = IF r.err = "none" THEN r.self ELSE loaded
            /\ UNCHANGED <<doc, entry, db, kundb, result, batch>>

Next == Load \/ Get

Spec == Init /\ [][Next]_vars

----------------------------------------------------------------------------
(* Claims about the store *)

AllIsUnion(e) == /\ e.onyomi_all = e.onyomi \cup e.onyomi_ext
                 /\ e.kunyomi_all = e.kunyomi \cup e.kunyomi_ext

C2_RoundTrip ==
    (pc = "got" /\ err = "none" /\ loaded.kanji = entry.kanji)
        => /\ loaded.kanji = entry.kanji
           /\ loaded.origin_url = entry.origin_url
           /\ loaded.radical = entry.radical
           /\ loaded.phonetic_comp = entry.phonetic_comp
           /\ loaded.old_form = entry.old_form
           /\ loaded.semantic_comp = entry.semantic_comp
           /\ loaded.types = entry.types
           /\ loaded.related_kanji = entry.related_kanji
           /\ loaded.onyomi = entry.onyomi
           /\ loaded.onyomi_ext = entry.onyomi_ext
           /\ loaded.onyomi_all = entry.onyomi_all
           /\ loaded.kunyomi = entry.kunyomi
           /\ loaded.kunyomi_ext = entry.kunyomi_ext
           /\ loaded.kunyomi_all = entry.kunyomi_all

\* an Entry with every field filled has made the round trip, its sets stored
\* in reversed order
C2_Witness ==
    /\ pc = "got" /\ err = "none" /\ loaded.kanji = entry.kanji
    /\ entry.old_form # {} /\ entry.types # {}
    /\ Cardinality(entry.semantic_comp) >= 2
    /\ entry.phonetic_comp # NoneVal
    /\ Cardinality(entry.related_kanji) >= 2
    /\ Cardinality(entry.onyomi) >= 2 /\ entry.onyomi_ext # {}
    /\ Cardinality(entry.kunyomi) >= 2 /\ entry.kunyomi_ext # {}
    /\ \E i \in DOMAIN db :
          /\ db[i].kanji = entry.kanji
          /\ db[i].onyomi = Reverse(SetToSeq(entry.onyomi))

----------------------------------------------------------------------------
(* Claims about the decomposition extractor *)

\* the text the extractor classifies and searches: the last line-break
\* segment of the fragment's markup, parenthetical asides removed
FormationText == Naritachi(doc.naritachi_tag)

HasOverride == doc.kanji \in {<<k>> : k \in SpecialEntryKanji}

\* C3: a character of the decomposition-override table gets exactly the
\* components hardcoded for it, whatever the formation text says.
C3_OverrideWins ==
    (pc = "done" /\ HasOverride)
        => /\ err = "none"
           /\ doc.kanji = <<"KJ_jou">>
                 => /\ entry.semantic_comp = {<<"ki">>, <<"hito">>}
                    /\ entry.phonetic_comp = NoneVal
           /\ doc.kanji = <<"KJ_kei2">>
                 => /\ entry.semantic_comp = {<<"kokoro">>}
                    /\ entry.phonetic_comp = <<"kei_view">>

\* an overridden character came with formation text that carries the
\* phono-semantic and compound-ideographic markers and both component markers
C3_Witness ==
    /\ pc = "done" /\ doc.kanji = <<"KJ_jou">>
    /\ {KEISEI, KAII} \subseteq entry.types
    /\ Contains(FormationText, IFU \o <<"A">>)
    /\ Contains(FormationText, <<"to", ",", "B">>)
    /\ entry.semantic_comp = {<<"ki">>, <<"hito">>}

\* the slot of the fragment's child list the phonetic component falls back
\* to: 1 when the semantic component was read from the text, else 2
FallbackSlot ==
    LET i == IF Contains(FormationText, IFU) THEN Find(FormationText, IFU) + 2
             ELSE Find(FormationText, TO) - 1
    IN  IF At(FormationText, i) \in {<<"<">>, <<">">>} THEN 2 ELSE 1

\* C5: formation text tagged phono-semantic and compound-ideographic has its
\* phonetic component read two characters after the first connective
\* particle, wherever the phonetic marker is; when that character opens a
\* tag, the fallback child node is taken instead.
C5_PhoneticAfterConnective ==
    (/\ pc = "done" /\ err = "none" /\ ~HasOverride
     /\ {KEISEI, KAII} \subseteq entry.types
     /\ Contains(FormationText, TO))
        => \E i \in 1..(Len(FormationText) - 2) :
              /\ FormationText[i] = "to"
              /\ \A j \in 1..(i - 1) : FormationText[j] # "to"
              /\ IF FormationText[i + 2] # "<"
                 THEN entry.phonetic_comp = <<FormationText[i + 2]>>
                 ELSE entry.phonetic_comp =
                          Str(doc.naritachi_tag.kids[FallbackSlot + 1])

\* the text has a phonetic marker followed by one component and a connective
\* particle followed by another, and the latter is the phonetic component
C5_Witness ==
    /\ pc = "done" /\ err = "none" /\ ~HasOverride
    /\ {KEISEI, KAII} \subseteq entry.types
    /\ Contains(FormationText, TO) /\ Contains(FormationText, ONPU)
    /\ At(FormationText, Find(FormationText, ONPU) + 2) = <<"B">>
    /\ At(FormationText, Find(FormationText, TO) + 2) = <<"on">>
    /\ entry.phonetic_comp = <<"on">>

\* C8: for a character without override, formation text with none of the six
\* classification markers gives no classification, no semantic component and
\* no phonetic component, and nothing is raised.
C8_NoMarkerNoComponents ==
    (/\ pc = "done" /\ ~HasOverride
     /\ \A k \in KanjiTypes : ~Contains(FormationText, namemap[k]))
        => /\ err = "none"
           /\ entry.types = {}
           /\ entry.semantic_comp = {}
           /\ entry.phonetic_comp = NoneVal

\* marker-free text that still names components around a connective particle
C8_Witness ==
    /\ pc = "done" /\ ~HasOverride
    /\ \A k \in KanjiTypes : ~Contains(FormationText, namemap[k])
    /\ Contains(FormationText, <<"A", "to", ",", "on", "fu", "B">>)
    /\ entry.types = {} /\ entry.semantic_comp = {}

----------------------------------------------------------------------------
(* Claims about the reading list extractor *)

KunKids == doc.list_tag[2].kids

AllReadings == entry.onyomi \cup entry.onyomi_ext
               \cup entry.kunyomi \cup entry.kunyomi_ext

\* C6: a kunyomi paragraph made of a stem text node and a suffix span gives
\* the single reading stem "." suffix, in the primary set; neither the stem
\* nor the suffix is stored on its own.
C6_StemSuffixFusion ==
    \A stem \in {<<"a">>, <<"sp", "c">>}, suffix \in {<<"x">>} :
        (pc = "done" /\ KunKids = <<Text(stem), NormalSpan(suffix)>>)
            => /\ err = "none"
               /\ entry.kunyomi = {Strip(stem) \o <<".">> \o suffix}
               /\ entry.kunyomi_ext = {}
               /\ Strip(stem) \notin AllReadings
               /\ suffix \notin AllReadings

\* stem "a" followed by the suffix span "x" was parsed into "a.x"
C6_Witness ==
    /\ pc = "done"
    /\ KunKids = <<Text(<<"a">>), NormalSpan(<<"x">>)>>
    /\ entry.kunyomi = {<<"a", ".", "x">>}

\* the extended-region span, holding at most the marker image, or holding
\* the one further reading
MarkerOnly == {Span("", EXTSTYLE, k) : k \in {<<>>, <<ExtImg>>}}

\* C7: two primary readings, then the extended-region span, then one more
\* reading: the first two are in kunyomi, the last one in kunyomi_ext, and
\* the two sets share nothing.
C7_ExtendedRegionSplit ==
    \A x \in MarkerOnly, post \in {<<Text(<<"f">>)>>,
                                   <<Text(<<"f">>), NormalSpan(<<"x">>)>>} :
        (pc = "done" /\ KunKids = <<Text(<<"a", "sep", "b">>), x>> \o post)
            => /\ entry.kunyomi = {<<"a">>, <<"b">>}
               /\ entry.kunyomi_ext =
                      {IF Len(post) = 1 THEN <<"f">> ELSE <<"f", ".", "x">>}
               /\ entry.kunyomi \cap entry.kunyomi_ext = {}

\* C9: no stored reading contains the separator.
C9_NoSeparatorInReadings ==
    pc = "done" => \A r \in AllReadings : ~Contains(r, SEP)

----------------------------------------------------------------------------
(* Claims about the assembled Entry *)

\* the formation fragment of the page
FormationTag == doc.naritachi.kids[2].kids[2]

General(k) == [NewEntry EXCEPT !.kanji = <<k>>]

StringSets == {entry.old_form, entry.semantic_comp, entry.related_kanji,
               entry.onyomi, entry.onyomi_ext, entry.kunyomi,
               entry.kunyomi_ext}

\* C10: every member of every string set of an assembled Entry is trimmed
\* and non-empty.
C10_MembersTrimmedNonEmpty ==
    (pc = "done" /\ err = "none")
        => \A S \in StringSets : \A m \in S : m # <<>> /\ Strip(m) = m

\* the characters of the same-radical listing of the page
ListingChars == Chars(Replace(TextOf(doc.same_bushu), "nl", <<>>))

\* C11: the related characters of an assembled Entry are the characters of
\* the same-radical listing without the Entry's own character.
C11_RelatedExcludesSelf ==
    (pc = "done" /\ err = "none")
        => /\ entry.kanji \notin entry.related_kanji
           /\ entry.related_kanji = ListingChars \ {entry.kanji}

\* the anchors of the page that _parse_HTML looks up
AnchorsPresent ==
    /\ ~IsNone(doc.naritachi) /\ ~IsNone(doc.bushu) /\ ~IsNone(doc.same_bushu)
    /\ Len(doc.list_tag) = 2

\* C12: a structural parse failure never aborts the Entry: whichever anchor
\* is missing, and wherever a marker sits in the formation text, assembly
\* completes without raising; a missing formation text leaves classification
\* and components empty while the readings are filled.
C12_ParseFailureNeverAborts ==
    pc = "done"
        => /\ err = "none"
           /\ (IsNone(doc.naritachi) /\ Len(doc.list_tag) = 2)
                 => /\ entry.types = {} /\ entry.semantic_comp = {}
                    /\ entry.phonetic_comp = NoneVal
                    /\ entry.onyomi # {}

----------------------------------------------------------------------------
(* KanjiDB: removal, the reading map and the shared-phonetic lookup *)

\* KanjiDB.Remove
Remove(table, k) == SelectSeq(table, LAMBDA d : d.kanji # k)

\* KanjiDB.GetAllKanji
GetAllKanji(table) == [i \in DOMAIN table |-> FromJSON(table[i]).self.kanji]

\* KanjiDB.Search on the kanji table: the matching records, rehydrated
RECURSIVE Rehydrate(_)
Rehydrate(recs) ==
    IF recs = <<>> THEN <<>>
    ELSE <<FromJSON(Head(recs)).self>> \o Rehydrate(Tail(recs))

\* KanjiDB.FindKunyomi with one reading
FindKunyomi(table, k) ==
    Rehydrate(SelectSeq(table, LAMBDA d : k \in Range(d.kunyomi_all)))

\* KanjiDB.AddOrUpdateKunEntry
AddOrUpdateKunEntry(kuntable, kun, kanji_list, ext_kanji_list) ==
    LET data == [kun |-> kun, kanji |-> kanji_list,
                 kanji_ext |-> ext_kanji_list]
    IN  IF \E i \in DOMAIN kuntable : kuntable[i].kun = kun
        THEN [i \in DOMAIN kuntable |->
                  IF kuntable[i].kun = kun THEN data ELSE kuntable[i]]
        ELSE Append(kuntable, data)

\* KanjiDB.FindKanjiWithSharedPhonetic leaving out the character asked about
FindKanjiWithSharedPhonetic_Others(table, k) ==
    LET kanji == GetKanji(table, k)
    IN  IF kanji.err # "none" THEN [list |-> <<>>, err |-> kanji.err]
        ELSE IF kanji.self.phonetic_comp \in {NoneVal, <<>>}
        THEN [list |-> <<>>, err |-> "none"]
        ELSE [list |-> Rehydrate(SelectSeq(table, LAMBDA d :
                           d.phonetic_comp = kanji.self.phonetic_comp
                           /\ d.kanji # k)),
              err |-> "none"]

\* KanjiDB.FindKanjiWithSharedPhonetic
FindKanjiWithSharedPhonetic(table, k) ==
    LET kanji == GetKanji(table, k)
    IN  IF kanji.err # "none" THEN [list |-> <<>>, err |-> kanji.err]
        ELSE IF kanji.self.phonetic_comp \in {NoneVal, <<>>}
        THEN [list |-> <<>>, err |-> "none"]
        ELSE [list |-> Rehydrate(SelectSeq(table, LAMBDA d :
                           d.phonetic_comp = kanji.self.phonetic_comp)),
              err |-> "none"]

----------------------------------------------------------------------------
(* build_kunyomi_map *)

\* lines 29-32: the readings of all stored Entries
AllKunyomi(table) ==
    UNION {GetKanji(table, k).self.kunyomi_all : k \in Range(GetAllKanji(table))}

\* lines 37-46: the characters filed under reading k, primary and extended
KunKanji(table, k) ==
    LET es == Range(FindKunyomi(table, k))
    IN  [ext |-> {e.kanji : e \in {x \in es : k \in x.kunyomi_ext}},
         prim |-> {e.kanji : e \in {x \in es : k \notin x.kunyomi_ext
                                                /\ k \in x.kunyomi}}]

\* lines 51-52: one upsert per reading of the map
RECURSIVE PopulateKun(_, _, _, _)
PopulateKun(table, kuntable, kuns, rev) ==
    IF kuns = <<>> THEN kuntable
    ELSE LET v == KunKanji(table, Head(kuns))
         IN  PopulateKun(table,
                         AddOrUpdateKunEntry(kuntable, Head(kuns),
                                             ListOf(v.prim, rev),
                                             ListOf(v.ext, rev)),
                         Tail(kuns), rev)

\* build_kunyomi_map.main
BuildKunyomiMap(table, kuntable, rev) ==
    PopulateKun(table, kuntable, ListOf(AllKunyomi(table), rev), rev)

----------------------------------------------------------------------------
(* The reading map: Entries are added, updated and removed, the map is
   built, Entries with a shared phonetic component are looked up *)

MapKanji == {"X", "Y"}

\* formation text naming the phonetic component c
FormationOf(c) ==
    Tag("p", "", "", <<>>,
        <<Text(<<"kei", "sei", "i", "fu", "A", "to", ",", "on", "fu", c,
                 "to", "kara">>)>>)

\* a primary and an extended reading; one reading in both regions; one
\* primary reading
KunP == Para(<<Text(<<"a">>), Span("", EXTSTYLE, <<ExtImg, Text(<<"d">>)>>)>>)
KunQ == Para(<<Text(<<"a">>), Span("", EXTSTYLE, <<ExtImg, Text(<<"a">>)>>)>>)
KunR == Para(<<Text(<<"b">>)>>)

\* the pages the server may answer with for character k
MapDocs(k) ==
    {MkDoc(k, <<>>, NaritachiLi(FormationOf("B")), Para(<<>>), KunP, SameA(k)),
     MkDoc(k, <<>>, NoneNode, Para(<<>>), KunR, SameA(k))}
    \cup IF k = "X"
         THEN {MkDoc(k, <<>>, NaritachiLi(FormationOf("C")), Para(<<>>), KunQ,
                     SameA(k))}
         ELSE {}

InitMap ==
    /\ doc = MkDoc("X", <<>>, NoneNode, Para(<<>>), Para(<<>>), NoneNode)
    /\ entry = NewEntry
    /\ err = "none"
    /\ pc = "idle"
    /\ db = <<>>
    /\ loaded = NewEntry
    /\ Untouched

\* add_kanji_to_database: an Entry is fetched and added, or updated
AddEntry(kanji) ==
    \E k \in kanji, rev \in BOOLEAN :
        \E d \in MapDocs(k) :
            \E r \in {FromURL(d.url, d)} :
                /\ r.err = "none"
                /\ doc' = d
                /\ entry' = r.self
                /\ err' = r.err
                /\ db' = AddOrUpdate(db, r.self, rev)
                /\ pc' = "added"
                /\ UNCHANGED <<loaded, kundb, result, batch>>

\* KanjiDB.Remove of a stored Entry
RemoveEntry ==
    \E k \in MapKanji :
        /\ \E i \in DOMAIN db : db[i].kanji = <<k>>
        /\ db' = Remove(db, <<k>>)
        /\ pc' = "removed"
        /\ UNCHANGED <<doc, entry, err, loaded, kundb, result, batch>>

\* build_kunyomi_map.main
BuildPass ==
    \E rev \in BOOLEAN :
        /\ kundb' = BuildKunyomiMap(db, kundb, rev)
        /\ pc' = "built"
        /\ UNCHANGED <<doc, entry, err, db, loaded, result, batch>>

NextMap == AddEntry(MapKanji) \/ RemoveEntry \/ BuildPass

SpecMap == InitMap /\ [][NextMap]_vars

----------------------------------------------------------------------------
(* Claims about the reading map *)

\* the Entries currently in the kanji table
Stored == Range(Rehydrate(db))

\* C13: after a build pass the kunyomi table holds a record for exactly the
\* readings of the Entries now in the kanji table, and every record lists
\* only characters that are now in the kanji table.
C13_MapRebuiltWholesale ==
    pc = "built"
        => /\ {kundb[i].kun : i \in DOMAIN kundb}
                  = UNION {e.kunyomi_all : e \in Stored}
           /\ \A i \in DOMAIN kundb :
                  Range(kundb[i].kanji) \cup Range(kundb[i].kanji_ext)
                      \subseteq {e.kanji : e \in Stored}

\* C14: after a build pass every record of the reading map lists, as primary
\* characters, all characters whose kunyomi has the reading and, as extended
\* characters, all characters whose kunyomi_ext has the reading.
C14_MapListsMatchReadingSets ==
    pc = "built"
        => \A i \in DOMAIN kundb :
               /\ Range(kundb[i].kanji)
                      = {e.kanji : e \in {x \in Stored :
                                              kundb[i].kun \in x.kunyomi}}
               /\ Range(kundb[i].kanji_ext)
                      = {e.kanji : e \in {x \in Stored :
                                              kundb[i].kun \in x.kunyomi_ext}}

----------------------------------------------------------------------------
(* add_kanji_to_database: the ingestion run over a list of lines *)

\* most lines of the url file
MaxBatch == 3

\* lines "url character", and a line without the blank
BatchLines == {<<"/", "X", "sp", "X">>, <<"/", "KJ_ka", "sp", "KJ_ka">>,
               <<"/", "X">>}

\* what requests.get may do for a url: answer with one of the pages of the
\* character, or raise
ConnectionError == [url |-> <<>>]
Answers(url) == {d \in StoreDocs : d.url = url} \cup {ConnectionError}

\* lines 33-34 with the store call made whatever FromURL did
StoreParsed_Anyway(table, r, rev) ==
    [db |-> AddOrUpdate(table, r.self, rev),
     outcome |-> IF r.err # "none" THEN "failed" ELSE "stored",
     self |-> r.self]

\* lines 33-34: AddOrUpdate is reached only when FromURL returned
StoreParsed(table, r, rev) ==
    IF r.err # "none"
    THEN [db |-> table, outcome |-> "failed", self |-> r.self]
    ELSE [db |-> AddOrUpdate(table, r.self, rev), outcome |-> "stored",
          self |-> r.self]

\* lines 29-30: a line that does not split into a url and a character
\* raises before anything is fetched
Malformed(line) == Len(Split(line, <<"sp">>)) # 2

\* line 29: url, kanji = line.strip().split(' ')
UrlOf(line) == Split(line, <<"sp">>)[1]

InitBatch ==
    /\ doc = MkDoc("X", <<>>, NoneNode, Para(<<>>), Para(<<>>), NoneNode)
    /\ entry = NewEntry
    /\ err = "none"
    /\ pc = "idle"
    /\ db = <<>>
    /\ loaded = NewEntry
    /\ kundb = <<>>
    /\ result = <<>>
    /\ \E lines \in SeqsUpTo(BatchLines, MaxBatch) :
           batch = [input |-> lines, todo |-> lines, log |-> <<>>]

\* one turn of the loop: the line is processed; an exception is logged and
\* the loop goes on
IngestItem ==
    /\ pc # "exit"
    /\ batch.todo # <<>>
    /\ \E rev \in BOOLEAN :
       \E answer \in Answers(UrlOf(Head(batch.todo))) :
       \E r \in {IF Malformed(Head(batch.todo)) \/ answer = ConnectionError
                 THEN Raise(NewEntry, "Exception")
                 ELSE FromURL(UrlOf(Head(batch.todo)), answer)} :
       \E s \in {StoreParsed(db, r, rev)} :
           /\ db' = s.db
           /\ entry' = IF s.outcome = "stored" THEN s.self ELSE entry
           /\ err' = IF s.outcome = "stored" THEN "none" ELSE "logged"
           /\ batch' = [input |-> batch.input,
                        todo |-> Tail(batch.todo),
                        log |-> Append(batch.log,
                                       [line |-> Head(batch.todo),
                                        outcome |-> s.outcome])]
           /\ pc' = "item"
    /\ UNCHANGED <<doc, loaded, kundb, result>>

\* KeyboardInterrupt while a line is being processed, before or after the
\* Entry is stored: sys.exit(1)
Interrupt ==
    /\ pc # "exit"
    /\ batch.todo # <<>>
    /\ \E rev \in BOOLEAN, late \in BOOLEAN :
       \E answer \in Answers(UrlOf(Head(batch.todo))) :
       \E r \in {IF Malformed(Head(batch.todo)) \/ answer = ConnectionError
                 THEN Raise(NewEntry, "Exception")
                 ELSE FromURL(UrlOf(Head(batch.todo)), answer)} :
       \E s \in {StoreParsed(db, r, rev)} :
           /\ db' = IF late THEN s.db ELSE db
           /\ batch' = [input |-> batch.input,
                        todo |-> batch.todo,
                        log |-> Append(batch.log,
                                       [line |-> Head(batch.todo),
                                        outcome |-> "interrupted"])]
           /\ pc' = "exit"
    /\ UNCHANGED <<doc, entry, err, loaded, kundb, result>>

NextBatch == IngestItem \/ Interrupt

SpecBatch == InitBatch /\ [][NextBatch]_vars

----------------------------------------------------------------------------
(* Claims about the ingestion run *)

\* the lines started so far are the first lines of the list, in order; only
\* an interrupt ends the run, and it is the last thing the run does;
\* otherwise the rest of the list is still to come and the next line can be
\* processed
RunInOrder ==
    LET n == Len(batch.log)
    IN  /\ n <= Len(batch.input)
        /\ \A i \in 1..n : batch.log[i].line = batch.input[i]
        /\ \A i \in 1..(n - 1) : batch.log[i].outcome \in {"stored", "failed"}
        /\ pc = "exit" => n > 0 /\ batch.log[n].outcome = "interrupted"
        /\ pc # "exit"
              => /\ n > 0 => batch.log[n].outcome # "interrupted"
                 /\ batch.todo = SubSeq(batch.input, n + 1, Len(batch.input))
                 /\ batch.todo # <<>> => ENABLED IngestItem

\* a step that ends a line in failure leaves the store as it is; a step that
\* ends it in success leaves the Entry in the store
ItemStep ==
    Len(batch'.log) = Len(batch.log) + 1
        => LET o == batch'.log[Len(batch'.log)].outcome
           IN  /\ o = "failed" => db' = db
               /\ o = "stored"
                     => \E i \in DOMAIN db' : db'[i].kanji = entry'.kanji

\* C15: the lines are processed in list order; a line that fails writes
\* nothing to the store and the following lines are still processed and, if
\* they succeed, stored; an interrupt ends the run with no later line started.
C15_ItemFailuresAreIsolated == []RunInOrder /\ [][ItemStep]_vars

\* a line failed, the store was left alone, and the line after it was stored
C15_Witness ==
    /\ Len(batch.log) >= 2
    /\ batch.log[Len(batch.log) - 1].outcome = "failed"
    /\ batch.log[Len(batch.log)].outcome = "stored"
    /\ Len(db) = 1
    /\ pc = "item"

----------------------------------------------------------------------------
(* The shared-phonetic lookup over a store of three characters *)

PhoneticKanji == {"X", "Y", "W"}

\* KanjiDB.FindKanjiWithSharedPhonetic for a character; an unknown
\* character makes GetKanji raise
SharedPhonetic ==
    \E k \in PhoneticKanji :
        \E r \in {FindKanjiWithSharedPhonetic(db, <<k>>)} :
            /\ result' = r.list
            /\ err' = r.err
            /\ loaded' = IF r.err = "none" THEN GetKanji(db, <<k>>).self
                         ELSE loaded
            /\ pc' = "looked"
            /\ UNCHANGED <<doc, entry, db, kundb, batch>>

NextPhonetic == AddEntry(PhoneticKanji) \/ SharedPhonetic

SpecPhonetic == InitMap /\ [][NextPhonetic]_vars

\* the stored Entries with the phonetic component of the character asked about
Sharing == {e \in Stored : e.phonetic_comp = loaded.phonetic_comp}

\* C16: when exactly two stored Entries have the phonetic component of the
\* character asked about, the lookup returns those two and nothing else;
\* for a character without phonetic component it returns the empty list.
C16_SharedPhoneticLookup ==
    (pc = "looked" /\ err = "none")
        => /\ loaded.phonetic_comp = NoneVal => result = <<>>
           /\ (loaded.phonetic_comp # NoneVal /\ Cardinality(Sharing) = 2)
                 => /\ Len(result) = 2
                    /\ Range(result) = Sharing
                    /\ loaded \in Range(result)

\* three stored Entries, two with the same phonetic component and one with
\* another; the lookup for one of the two returned both
C16_Witness ==
    /\ pc = "looked" /\ err = "none"
    /\ Len(db) = 3
    /\ loaded.phonetic_comp = <<"B">>
    /\ Cardinality(Sharing) = 2
    /\ \E e \in Stored : e.phonetic_comp = <<"C">>
    /\ Len(result) = 2

----------------------------------------------------------------------------
(* Claims about the extended-mode flag of the two reading passes *)

HasMarkerImg(kids) == \E i \in DOMAIN kids : IsExtImg(kids[i])

\* the children of the onyomi paragraph that precede the first marker image,
\* at top level or inside an inline group
RECURSIVE BeforeOnMarker(_)
BeforeOnMarker(kids) ==
    IF kids = <<>> THEN <<>>
    ELSE LET c == Head(kids)
         IN  IF IsStr(c) THEN <<c>> \o BeforeOnMarker(Tail(kids))
             ELSE IF IsExtImg(c) THEN <<>>
             ELSE IF c.name = "span" /\ HasMarkerImg(c.kids)
             THEN <<[c EXCEPT !.kids = BeforeOnMarker(c.kids)]>>
             ELSE <<c>> \o BeforeOnMarker(Tail(kids))

IsMarkerSpan(n) == ~IsStr(n) /\ n.name = "span" /\ n.cls # NORMAL
                   /\ n.style = EXTSTYLE

\* the children of the kunyomi paragraph that precede the marker-styled span
RECURSIVE BeforeKunMarker(_)
BeforeKunMarker(kids) ==
    IF kids = <<>> THEN <<>>
    ELSE IF IsMarkerSpan(Head(kids)) THEN <<>>
    ELSE <<Head(kids)>> \o BeforeKunMarker(Tail(kids))

\* the primary sets of the two paragraphs cut before their markers
PrimaryOnly ==
    ParseReadings(NewEntry,
                  <<[doc.list_tag[1] EXCEPT !.kids = BeforeOnMarker(@)],
                    [doc.list_tag[2] EXCEPT !.kids = BeforeKunMarker(@)]>>).self

\* C17: in each pass the primary set holds only the readings that precede
\* the pass's marker, every later reading being extended; and a marker in
\* the onyomi paragraph alone leaves kunyomi_ext empty.
C17_ExtendedFlagIsSticky ==
    (pc = "done" /\ err = "none")
        => /\ entry.onyomi = PrimaryOnly.onyomi
           /\ entry.kunyomi = PrimaryOnly.kunyomi
           /\ (\A i \in DOMAIN KunKids : ~IsMarkerSpan(KunKids[i]))
                 => entry.kunyomi_ext = {}

----------------------------------------------------------------------------
(* Claims about the image fallback of the decomposition extractor *)

\* the embedded images of the formation fragment, in document order
ImgKids == SelectSeq(doc.naritachi_tag.kids,
                     LAMBDA k : ~IsStr(k) /\ k.name = "img")

\* the positions of the formation text the two components are read at
FirstAt ==
    IF KEISEI \in entry.types /\ Contains(FormationText, IFU)
    THEN Find(FormationText, IFU) + 2
    ELSE Find(FormationText, TO) - 1
SecondAt ==
    IF KEISEI \in entry.types /\ KAII \notin entry.types
    THEN Find(FormationText, ONPU) + 2
    ELSE Find(FormationText, TO) + 2

\* a component is an image when its position holds a tag delimiter
FirstIsImage == At(FormationText, FirstAt) \in {<<"<">>, <<">">>}
SecondIsImage ==
    At(FormationText, SecondAt)
        \in IF KEISEI \in entry.types THEN {<<"<">>} ELSE {<<"<">>, <<">">>}

\* the value stored for the second component
SecondIs(v) == IF KEISEI \in entry.types THEN entry.phonetic_comp = v
               ELSE v \in entry.semantic_comp

=============================================================================
